---- MODULE Spec2Model ----
(***************************************************************************)
(* The Data Analysis Dashboard (src/app.py): a Streamlit script that is    *)
(* run from top to bottom on every user interaction.  A run loads the      *)
(* uploaded file into the DataFrame df, dispatches on the sidebar page and *)
(* renders that page.  The model keeps the uploaded file, the widget       *)
(* values, and what the last run bound to df and rendered.                 *)
(***************************************************************************)
EXTENDS Integers, Sequences, FiniteSets, TLC

VARIABLES uploaded, page, chart_type, col, method, df, result

vars == <<uploaded, page, chart_type, col, method, df, result>>

(***************************************************************************)
(* Bounds of the model.                                                    *)
(***************************************************************************)
MaxRows == 3
MaxSeriesLen == 5

(***************************************************************************)
(* Cells.  A numeric cell is a float64: the record [h, l, d] stands for    *)
(* the number (h * 2^53 + l) / (8 * d).  Cells read from a file have       *)
(* d = 1; a quotient that is no multiple of 1/8 (a mean) keeps d > 1 and   *)
(* stands for the float64 nearest to it.  NaN is the missing value.        *)
(***************************************************************************)
NaN == [t |-> "nan", h |-> 0, l |-> 0, d |-> 1, s |-> ""]
F(hh, ll) == [t |-> "num", h |-> hh, l |-> ll, d |-> 1, s |-> ""]
Num(n) == F(0, 8 * n)
\* 2^53 + 2 = 9007199254740994, a float64 whose neighbours are 2 away
Big == F(8, 16)
Str(x) == [t |-> "str", h |-> 0, l |-> 0, d |-> 1, s |-> x]

isnull(c) == c.t = "nan"

Abs(n) == IF n < 0 THEN -n ELSE n

RECURSIVE Gcd(_, _)
Gcd(a, b) == IF b = 0 THEN Abs(a) ELSE Gcd(b, a % Abs(b))

RECURSIVE Pow2Below(_)
\* the largest power of two that is at most n, for n >= 1
Pow2Below(n) == IF n < 2 THEN 1 ELSE 2 * Pow2Below(n \div 2)

\* The spacing of the float64 numbers around (hh * 2^53 + ll) / 8, in
\* eighths: 53 significand bits, so numbers in [2^53, 2^54) are 2 apart.
Ulp8(hh, ll) ==
    IF hh = 0 THEN 1
    ELSE LET p == Pow2Below(Abs(hh))
         IN  IF Abs(hh) = p /\ ((hh > 0 /\ ll < 0) \/ (hh < 0 /\ ll > 0))
             THEN p
             ELSE 2 * p

\* n rounded to the nearest multiple of u, ties to the even multiple
RoundTo(n, u) ==
    LET q == n \div u
        r == n % u
    IN  IF 2 * r < u THEN q * u
        ELSE IF 2 * r > u THEN (q + 1) * u
        ELSE IF q % 2 = 0 THEN q * u ELSE (q + 1) * u

\* round-to-nearest-even of the exact value (hh * 2^53 + ll) / 8
fl(hh, ll) == F(hh, RoundTo(ll, Ulp8(hh, ll)))

fadd(x, y) == IF isnull(x) \/ isnull(y) THEN NaN ELSE fl(x.h + y.h, x.l + y.l)
fsub(x, y) == IF isnull(x) \/ isnull(y) THEN NaN ELSE fl(x.h - y.h, x.l - y.l)
\* x * (n / m), for the factors the script uses (quarters, 1.5)
fmul(x, n, m) ==
    IF isnull(x) THEN NaN ELSE fl((x.h * n) \div m, (x.l * n) \div m)

\* x / n for a count n: exact eighths stay d = 1, other quotients keep d
fdiv(x, n) ==
    IF isnull(x) \/ n = 0 THEN NaN
    ELSE LET g == Gcd(Gcd(x.h, x.l), n)
             m == n \div g
         IN  IF m = 1 THEN fl(x.h \div g, x.l \div g)
             ELSE [t |-> "num", h |-> x.h \div g, l |-> x.l \div g, d |-> m, s |-> ""]

\* x < y on float64; every comparison with NaN is False
lt(x, y) ==
    /\ ~isnull(x) /\ ~isnull(y)
    /\ \/ x.h * y.d < y.h * x.d
       \/ x.h * y.d = y.h * x.d /\ x.l * y.d < y.l * x.d
gt(x, y) == lt(y, x)

(***************************************************************************)
(* DataFrames.  A table is its columns (name and dtype, in order), its row *)
(* labels (index) and its rows; data[i][j] is the cell of row i in column  *)
(* j.  read_csv gives a column dtype "number" when every cell is a number  *)
(* or empty (NaN) and the file has a data row, and "object" when it holds  *)
(* text or the file has no data row.                                       *)
(***************************************************************************)
NoTable == [columns |-> <<>>, index |-> <<>>, data |-> <<>>]
NoFile == [name |-> "", table |-> NoTable]
NoCol == "None"

Range(f) == {f[i] : i \in DOMAIN f}

\* the positions i in 1..n with Test(i), ascending
Where(n, Test(_)) ==
    LET f[k \in 0..n] ==
            IF k = 0 THEN <<>>
            ELSE IF Test(k) THEN Append(f[k - 1], k) ELSE f[k - 1]
    IN  f[n]

Take(seq, idx) == [k \in 1..Len(idx) |-> seq[idx[k]]]

shape(t) == <<Len(t.index), Len(t.columns)>>
names(t) == [j \in 1..Len(t.columns) |-> t.columns[j].name]
ColPos(t, c) == CHOOSE j \in 1..Len(t.columns) : t.columns[j].name = c
HasCol(t, c) == \E j \in 1..Len(t.columns) : t.columns[j].name = c
\* df[c]: the column c as a Series, in row order
Series(t, c) == [i \in 1..Len(t.index) |-> t.data[i][ColPos(t, c)]]

\* df.select_dtypes(include=...).columns.tolist()
select_dtypes(t, dt) ==
    Take(names(t), Where(Len(t.columns), LAMBDA j : t.columns[j].dtype = dt))

\* df[mask]: the rows at the positions idx, all columns, labels kept
TakeRows(t, idx) ==
    [columns |-> t.columns, index |-> Take(t.index, idx), data |-> Take(t.data, idx)]

TakeCols(t, idx) ==
    [columns |-> Take(t.columns, idx), index |-> t.index,
     data |-> [i \in 1..Len(t.data) |-> Take(t.data[i], idx)]]

\* df.isnull().sum()
null_counts(t) ==
    [j \in 1..Len(t.columns) |->
        Cardinality({i \in 1..Len(t.index) : isnull(t.data[i][j])})]

\* the non-missing values of a Series, in row order
notna(ser) == Take(ser, Where(Len(ser), LAMBDA i : ~isnull(ser[i])))

\* ascending sort of a sequence of numbers
Sorted(ser) ==
    LET Insert(srt, x) ==
            LET k == Cardinality({i \in 1..Len(srt) : ~lt(x, srt[i])})
            IN  SubSeq(srt, 1, k) \o <<x>> \o SubSeq(srt, k + 1, Len(srt))
        f[k \in 0..Len(ser)] ==
            IF k = 0 THEN <<>> ELSE Insert(f[k - 1], ser[k])
    IN  f[Len(ser)]

\* numpy's _lerp(a, b, t) for t = g / 4
lerp(a, b, diff_b_a, g) ==
    IF 2 * g >= 4 THEN fsub(b, fmul(diff_b_a, 4 - g, 4))
    ELSE fadd(a, fmul(diff_b_a, g, 4))

\* the interpolation at virtual index (n - 1) * q4 / 4 of sorted values v
percentile(v, q4) ==
    LET n == Len(v)
        prev == ((n - 1) * q4) \div 4
        g == ((n - 1) * q4) % 4
        next == IF prev + 2 > n THEN n ELSE prev + 2
    IN  IF n = 0 THEN NaN
        ELSE lerp(v[prev + 1], v[next], fsub(v[next], v[prev + 1]), g)

\* Series.quantile(q4 / 4): linear interpolation between order statistics
\* of the non-missing values, NaN when there is none
quantile(ser, q4) == percentile(Sorted(notna(ser)), q4)

\* the differences taken backwards: value[i-1] - value[i]
DiffBackwards(ser) ==
    [i \in 1..Len(ser) |-> IF i = 1 THEN NaN ELSE fsub(ser[i - 1], ser[i])]

\* Series.diff(): value[i] - value[i-1], NaN in the first row and wherever
\* one of the two values is missing
diff(ser) ==
    [i \in 1..Len(ser) |-> IF i = 1 THEN NaN ELSE fsub(ser[i], ser[i - 1])]

\* the sum and the count of the non-missing values, added in row order
nansum(ser) ==
    LET f[k \in 0..Len(ser)] ==
            IF k = 0 THEN Num(0)
            ELSE IF isnull(ser[k]) THEN f[k - 1] ELSE fadd(f[k - 1], ser[k])
    IN  f[Len(ser)]
\* the count with the missing values counted
CountAll(ser) == Len(ser)

count(ser) == Len(notna(ser))

\* Series.mean(): skips NaN; NaN when nothing is left
mean(ser) == fdiv(nansum(ser), count(ser))

\* the middle value of sorted values v, or the mean of the two middle ones
middle(v) ==
    LET n == Len(v)
    IN  IF n = 0 THEN NaN
        ELSE IF n % 2 = 1 THEN v[(n + 1) \div 2]
        ELSE fdiv(fadd(v[n \div 2], v[n \div 2 + 1]), 2)

\* Series.median(): skips NaN
median(ser) == middle(Sorted(notna(ser)))

(***************************************************************************)
(* What a run renders.  An exception that the script does not catch ends   *)
(* the run: Streamlit shows it in place of the rest of the page, and the   *)
(* next interaction runs the script again from the top.                    *)
(***************************************************************************)
Raised(exc) == [kind |-> "exception", exc |-> exc]

\* a selectbox that falls back to the first column name without options
SelectboxFallback(options, chosen) ==
    IF Len(options) = 0 THEN "a"
    ELSE IF chosen \in Range(options) THEN chosen
    ELSE options[1]

\* st.selectbox(label, options): the chosen option, the first one until the
\* user chooses, None when there is no option
selectbox(options, chosen) ==
    IF Len(options) = 0 THEN NoCol
    ELSE IF chosen \in Range(options) THEN chosen
    ELSE options[1]

\* pd.read_csv(uploaded) / pd.read_excel(uploaded): the table of the file
LoadData(file) == file.table

Pages == {"Data Preview", "Statistics", "Visualizations", "Outlier Detection",
          "Correlation Explorer", "Trend Detection", "Clean & Export"}
Charts == {"Histogram", "Bar Chart", "Line Chart", "Scatter Plot", "Box Plot"}
Methods == {"Drop rows with nulls", "Drop columns with nulls",
            "Fill nulls with mean", "Fill nulls with median", "Fill nulls with 0"}

\* What the libraries the script calls may do, by installed version:
\* DataFrame.mean()/median() over a text column either leaves the column
\* out (pandas 1.x, numeric_only=None) or raises TypeError (pandas 2.x,
\* numeric_only=False); plotly express given x=None either draws the table
\* in wide form or rejects it.
Builds == [numeric_only : {"None", "False"}, px_wide : {"figure", "ValueError"}]

\* df.head()
head(t) ==
    TakeRows(t, Where(Len(t.index), LAMBDA i : i <= 5))

\* PAGE 1: preview, shape, column list and missing values per column
DataPreviewPage(d) ==
    [kind |-> "preview", head |-> head(d), rows |-> shape(d)[1],
     columns |-> shape(d)[2], columns_list |-> names(d),
     missing |-> null_counts(d)]

\* one column of df.describe(), from the Series and its sorted values
describe_column(name, ser, v) ==
    [name |-> name, count |-> Len(v), mean |-> mean(ser),
     min |-> IF Len(v) = 0 THEN NaN ELSE v[1],
     q25 |-> percentile(v, 1), q50 |-> percentile(v, 2), q75 |-> percentile(v, 3),
     max |-> IF Len(v) = 0 THEN NaN ELSE v[Len(v)]]

\* df.describe() without the standard deviation: per numeric column the
\* count, mean, min, quartiles and max of its non-missing values
describe(t) ==
    LET num == select_dtypes(t, "number")
    IN  [k \in 1..Len(num) |->
            describe_column(num[k], Series(t, num[k]),
                            Sorted(notna(Series(t, num[k]))))]

\* df[c].value_counts(): how often each non-missing value occurs
value_counts(ser) ==
    [x \in Range(notna(ser)) |-> Cardinality({i \in 1..Len(ser) : ser[i] = x})]

\* PAGE 2: summary statistics and the breakdown of every text column
StatisticsPage(d) ==
    LET categorical == select_dtypes(d, "object")
    IN  [kind |-> "statistics", describe |-> describe(d),
         breakdown |-> [k \in 1..Len(categorical) |->
                           value_counts(Series(d, categorical[k]))]]

\* PAGE 3: one chart of the chosen type over the chosen column (the y axis
\* of the scatter plot stays at its first option)
VisualizationsPage(d, ct, c, build) ==
    LET numeric_cols == select_dtypes(d, "number")
        categorical_cols == select_dtypes(d, "object")
        options == IF ct = "Bar Chart" THEN categorical_cols ELSE numeric_cols
        column == selectbox(options, c)
    IN  IF column = NoCol /\ ct \in {"Bar Chart", "Line Chart"}
        THEN Raised("KeyError")
        ELSE IF column = NoCol /\ build.px_wide = "ValueError"
        THEN Raised("ValueError")
        ELSE [kind |-> "chart", chart_type |-> ct, x |-> column,
              y |-> IF ct = "Scatter Plot" THEN selectbox(numeric_cols, NoCol)
                    ELSE NoCol]

\* lines 135-141: the count and the table of the outliers
OutlierReport(column, Q1, Q3, IQR, lower, upper, outliers) ==
    [kind |-> "outliers", col |-> column, Q1 |-> Q1, Q3 |-> Q3, IQR |-> IQR,
     lower |-> lower, upper |-> upper, outliers |-> outliers,
     total |-> shape(outliers)[1]]

\* the rows not between the fences: ~df[col].between(lower, upper), which
\* keeps the rows with a missing value
OutlierRowsNotBetween(d, column, ser, Q1, Q3, IQR, lower, upper) ==
    OutlierReport(column, Q1, Q3, IQR, lower, upper,
        TakeRows(d, Where(Len(d.index),
            LAMBDA i : ~(~lt(ser[i], lower) /\ ~isnull(ser[i]) /\ ~gt(ser[i], upper)))))

\* the rows on or outside the fences: <= and >=
OutlierRowsInclusive(d, column, ser, Q1, Q3, IQR, lower, upper) ==
    OutlierReport(column, Q1, Q3, IQR, lower, upper,
        TakeRows(d, Where(Len(d.index),
            LAMBDA i : ~isnull(ser[i]) /\ (~gt(ser[i], lower) \/ ~lt(ser[i], upper)))))

\* line 133: df[(df[col] < lower) | (df[col] > upper)]
OutlierRows(d, column, ser, Q1, Q3, IQR, lower, upper) ==
    OutlierReport(column, Q1, Q3, IQR, lower, upper,
        TakeRows(d, Where(Len(d.index),
            LAMBDA i : lt(ser[i], lower) \/ gt(ser[i], upper))))

\* lines 130-131: the fences Q1 - 1.5 * IQR and Q3 + 1.5 * IQR
OutlierFences(d, column, ser, Q1, Q3, IQR) ==
    OutlierRows(d, column, ser, Q1, Q3, IQR,
                fsub(Q1, fmul(IQR, 3, 2)), fadd(Q3, fmul(IQR, 3, 2)))

\* lines 126-128: the quartiles of the column and their distance
OutlierQuartiles(d, column, ser, Q1, Q3) ==
    OutlierFences(d, column, ser, Q1, Q3, fsub(Q3, Q1))

\* PAGE 4: the rows outside [Q1 - 1.5 IQR, Q3 + 1.5 IQR] of one column
OutlierDetectionPage(d, c) ==
    LET column == selectbox(select_dtypes(d, "number"), c)
    IN  IF column = NoCol THEN Raised("KeyError")
        ELSE OutlierQuartiles(d, column, Series(d, column),
                              quantile(Series(d, column), 1),
                              quantile(Series(d, column), 3))

\* DataFrame.corr(): which coefficients of the matrix over the numeric
\* columns are defined (both columns vary over the rows where both are
\* present); the coefficients themselves are not computed
corr(t) ==
    LET num == select_dtypes(t, "number")
        Both(a, b) == {i \in 1..Len(t.index) :
                          ~isnull(Series(t, a)[i]) /\ ~isnull(Series(t, b)[i])}
        Varies(a, rows) == \E i, j \in rows : Series(t, a)[i] # Series(t, a)[j]
    IN  [labels |-> num,
         defined |-> {<<a, b>> \in Range(num) \X Range(num) :
                         Varies(a, Both(a, b)) /\ Varies(b, Both(a, b))}]

\* PAGE 5: the heatmap of the correlation matrix; seaborn cannot draw an
\* empty matrix
CorrelationExplorerPage(d) ==
    IF Len(select_dtypes(d, "number")) = 0 THEN Raised("ValueError")
    ELSE [kind |-> "heatmap", corr |-> corr(d)]

\* lines 170-175: the verdict from the mean difference
TrendVerdict(column, dm) ==
    [kind |-> "trend", col |-> column, diff |-> dm,
     verdict |-> IF gt(dm, Num(0)) THEN "increasing"
                 ELSE IF lt(dm, Num(0)) THEN "decreasing"
                 ELSE "no clear trend"]

\* PAGE 6: the sign of the mean of the consecutive differences
TrendDetectionPage(d, c) ==
    LET column == selectbox(select_dtypes(d, "number"), c)
    IN  IF column = NoCol THEN Raised("KeyError")
        ELSE TrendVerdict(column, mean(diff(Series(d, column))))

(***************************************************************************)
(* Cleaning.  Every pandas call below returns a new table and leaves the   *)
(* one it is called on as it was.                                          *)
(***************************************************************************)
\* df.copy()
copy(t) == t

\* df.dropna(how="all"): only the rows that are missing everywhere go
DropnaAll(t) ==
    TakeRows(t, Where(Len(t.index),
        LAMBDA i : \E j \in 1..Len(t.columns) : ~isnull(t.data[i][j])))

\* df.dropna(): the rows without a missing value
dropna(t) ==
    TakeRows(t, Where(Len(t.index),
        LAMBDA i : \A j \in 1..Len(t.columns) : ~isnull(t.data[i][j])))

\* df.dropna(axis=1): the columns without a missing value
dropna_columns(t) ==
    TakeCols(t, Where(Len(t.columns),
        LAMBDA j : \A i \in 1..Len(t.index) : ~isnull(t.data[i][j])))

HasText(t, j) == \E i \in 1..Len(t.index) : t.data[i][j].t = "str"

\* Whether df.mean() / df.median() raises: in the builds that reduce every
\* column, adding up text is a TypeError
ReduceRaises(t, build) ==
    /\ build.numeric_only = "False"
    /\ \E j \in 1..Len(t.columns) : HasText(t, j)

\* df.mean() / df.median(): the statistic of each reduced column, NaN for
\* the columns left out
reduce(t, Stat(_)) ==
    [j \in 1..Len(t.columns) |->
        IF HasText(t, j) \/ Len(t.index) = 0 THEN NaN
        ELSE Stat([i \in 1..Len(t.index) |-> t.data[i][j]])]

\* df.fillna(values): each missing cell becomes the value of its column,
\* unless that value is itself NaN
fillna(t, values) ==
    [columns |-> t.columns, index |-> t.index,
     data |-> [i \in 1..Len(t.index) |->
                  [j \in 1..Len(t.columns) |->
                      IF isnull(t.data[i][j]) THEN values[j] ELSE t.data[i][j]]]]

\* a fill that reaches the numeric columns only
FillnaNumberOnly(t, v) ==
    [columns |-> t.columns, index |-> t.index,
     data |-> [i \in 1..Len(t.index) |->
                  [j \in 1..Len(t.columns) |->
                      IF isnull(t.data[i][j]) /\ t.columns[j].dtype = "number"
                      THEN v ELSE t.data[i][j]]]]

\* df.fillna(0)
fillna_scalar(t, v) == fillna(t, [j \in 1..Len(t.columns) |-> v])

\* The branch of the chosen method, on df_clean
ApplyMethod(df_clean, m) ==
    CASE m = "Drop rows with nulls" -> dropna(df_clean)
      [] m = "Drop columns with nulls" -> dropna_columns(df_clean)
      [] m = "Fill nulls with mean" -> fillna(df_clean, reduce(df_clean, mean))
      [] m = "Fill nulls with median" -> fillna(df_clean, reduce(df_clean, median))
      [] m = "Fill nulls with 0" -> fillna_scalar(df_clean, Num(0))

\* lines 204-208: the success message, the head of df_clean and the download
CleanedReport(m, start, df_clean) ==
    [kind |-> "cleaned", method |-> m, start |-> start, df_clean |-> df_clean,
     head |-> head(df_clean), download |-> "cleaned_data.csv"]

\* lines 192-208: what the button does to df_clean
ApplyButton(df_clean, m, build) ==
    IF m \in {"Fill nulls with mean", "Fill nulls with median"}
       /\ ReduceRaises(df_clean, build)
    THEN Raised("TypeError")
    ELSE CleanedReport(m, df_clean, ApplyMethod(df_clean, m))

\* the page with the method applied to df itself (inplace) instead of to
\* the copy
CleanInPlace(d, rendered) ==
    [df |-> IF rendered.kind = "cleaned" THEN rendered.df_clean ELSE d,
     result |-> rendered]

\* the names df and df_clean when the run ends: df is still the loaded table
CleanBindings(d, rendered) ==
    [df |-> d, result |-> rendered]

\* PAGE 7: df_clean is a copy of df; the button applies the chosen method
\* to it, shows its head and offers it as cleaned_data.csv
CleanExportPage(d, m, button, build) ==
    CleanBindings(d,
        IF button THEN ApplyButton(copy(d), m, build)
        ELSE [kind |-> "clean", method |-> m])

\* One run of the script (lines 23-208) with a file uploaded
Script(file, pg, ct, c, m, button, build) ==
    LET d == LoadData(file)
    IN  CASE pg = "Data Preview" -> [df |-> d, result |-> DataPreviewPage(d)]
          [] pg = "Statistics" -> [df |-> d, result |-> StatisticsPage(d)]
          [] pg = "Visualizations" ->
                [df |-> d, result |-> VisualizationsPage(d, ct, c, build)]
          [] pg = "Outlier Detection" ->
                [df |-> d, result |-> OutlierDetectionPage(d, c)]
          [] pg = "Correlation Explorer" ->
                [df |-> d, result |-> CorrelationExplorerPage(d)]
          [] pg = "Trend Detection" ->
                [df |-> d, result |-> TrendDetectionPage(d, c)]
          [] pg = "Clean & Export" -> CleanExportPage(d, m, button, build)

(***************************************************************************)
(* The files a user may upload.                                            *)
(***************************************************************************)
ColNames == <<"a", "b">>
NumberCells == {NaN, Num(1), Num(2)}
TextCells == {NaN, Str("x")}
SeriesCells == {NaN, Num(1), Num(2), Num(3), Num(4), Num(100), Big}

\* the columns read_csv can produce from r data rows
ColumnsOf(r, numbers) ==
    {[dtype |-> "number", cells |-> c] : c \in IF r = 0 THEN {} ELSE [1..r -> numbers]}
    \cup {[dtype |-> "object", cells |-> c] :
             c \in {x \in [1..r -> TextCells] :
                       r = 0 \/ \E i \in 1..r : x[i].t = "str"}}

\* the table of r rows with the given columns, named in order
MakeTable(r, cs, colnames) ==
    [columns |-> [j \in 1..Len(cs) |-> [name |-> colnames[j], dtype |-> cs[j].dtype]],
     index |-> [i \in 1..r |-> i - 1],
     data |-> [i \in 1..r |-> [j \in 1..Len(cs) |-> cs[j].cells[i]]]]

Files ==
    {[name |-> "data.csv", table |-> MakeTable(r, cs, ColNames)] :
        <<r, cs>> \in UNION {{<<r, cs>> : cs \in [1..n -> ColumnsOf(r, NumberCells)]} :
                               <<r, n>> \in (0..MaxRows) \X (1..Len(ColNames))}}

\* the lines of a CSV file of one column and MaxSeriesLen data rows at
\* most: a cell for each data row, End after the last one
End == [t |-> "end", h |-> 0, l |-> 0, d |-> 1, s |-> ""]
SeriesLines ==
    {x \in [1..MaxSeriesLen -> SeriesCells \cup {End}] :
        /\ x[1] # End
        /\ \A i \in 1..(MaxSeriesLen - 1) : x[i] = End => x[i + 1] = End}
RowsOf(x) == Cardinality({i \in DOMAIN x : x[i] # End})

SeriesFiles ==
    {[name |-> "data.csv",
      table |-> MakeTable(RowsOf(x), <<[dtype |-> "number", cells |-> x]>>, <<"x">>)] :
        x \in SeriesLines}

(***************************************************************************)
(* The session.                                                            *)
(***************************************************************************)
Init ==
    /\ uploaded = NoFile
    /\ page = "Data Preview"
    /\ chart_type = "Histogram"
    /\ col = NoCol
    /\ method = "Drop rows with nulls"
    /\ df = NoTable
    /\ result = [kind |-> "info"]

\* the options of the page's column selectbox
ColOptions(d, pg, ct) ==
    IF pg \in {"Outlier Detection", "Trend Detection"} THEN select_dtypes(d, "number")
    ELSE IF pg = "Visualizations"
    THEN IF ct = "Bar Chart" THEN select_dtypes(d, "object")
         ELSE select_dtypes(d, "number")
    ELSE <<>>

\* the state after a run that ended with the bindings out
Commit(file, pg, ct, c, m, out) ==
    /\ uploaded' = file
    /\ page' = pg
    /\ chart_type' = ct
    /\ col' = selectbox(ColOptions(LoadData(file), pg, ct), c)
    /\ method' = m
    /\ df' = out.df
    /\ result' = out.result

\* One interaction: the widgets take their new values and the script runs
Run(file, pg, ct, c, m, button, build) ==
    Commit(file, pg, ct, c, m, Script(file, pg, ct, c, m, button, build))

\* The builds that one run can tell apart: only the Clean & Export page
\* reduces the table, only the Visualizations page calls plotly express
BuildsFor(pg) ==
    {b \in Builds :
        /\ pg # "Clean & Export" => b.numeric_only = "None"
        /\ pg # "Visualizations" => b.px_wide = "figure"}

\* st.file_uploader: the user uploads one of the files
Upload(files) ==
    /\ uploaded = NoFile
    /\ \E file \in files :
          \E build \in BuildsFor("Data Preview") :
              Run(file, "Data Preview", "Histogram", NoCol, "Drop rows with nulls",
                  FALSE, build)

\* st.sidebar.radio: the user goes to another page, whose widgets start at
\* their first option
Navigate(pg) ==
    /\ uploaded # NoFile
    /\ pg # page
    /\ \E build \in BuildsFor(pg) :
          Run(uploaded, pg, "Histogram", NoCol, "Drop rows with nulls", FALSE, build)

\* the chart type selectbox of the Visualizations page
SelectChart(ct) ==
    /\ uploaded # NoFile
    /\ page = "Visualizations"
    /\ ct # chart_type
    /\ \E build \in BuildsFor(page) : Run(uploaded, page, ct, NoCol, method, FALSE, build)

\* the column selectbox of a page
SelectColumn(c) ==
    /\ uploaded # NoFile
    /\ c \in Range(ColOptions(df, page, chart_type))
    /\ c # col
    /\ \E build \in BuildsFor(page) : Run(uploaded, page, chart_type, c, method, FALSE, build)

\* the method radio of the Clean & Export page
SelectMethod(m) ==
    /\ uploaded # NoFile
    /\ page = "Clean & Export"
    /\ m # method
    /\ \E build \in BuildsFor(page) : Run(uploaded, page, chart_type, col, m, FALSE, build)

\* the state after a run that stores the cleaned table as the current one
CommitSwap(out) ==
    /\ uploaded' = IF out.result.kind = "cleaned"
                   THEN [uploaded EXCEPT !.table = out.result.df_clean]
                   ELSE uploaded
    /\ df' = IF out.result.kind = "cleaned" THEN out.result.df_clean ELSE out.df
    /\ result' = out.result
    /\ UNCHANGED <<page, chart_type, col, method>>

ApplyCleaningSwap ==
    /\ uploaded # NoFile
    /\ page = "Clean & Export"
    /\ \E build \in BuildsFor(page) :
          CommitSwap(Script(uploaded, page, chart_type, col, method, TRUE, build))

\* the Apply Cleaning button: the run in which st.button returns True
ApplyCleaning ==
    /\ uploaded # NoFile
    /\ page = "Clean & Export"
    /\ \E build \in BuildsFor(page) :
          Run(uploaded, page, chart_type, col, method, TRUE, build)

Next ==
    \/ Upload(Files)
    \/ \E pg \in Pages : Navigate(pg)
    \/ \E ct \in Charts : SelectChart(ct)
    \/ \E c \in Range(ColNames) : SelectColumn(c)
    \/ \E m \in Methods : SelectMethod(m)
    \/ ApplyCleaning

Spec == Init /\ [][Next]_vars

\* The engine on one numeric column: outlier detection and trend analysis
SeriesPages == {"Outlier Detection", "Trend Detection"}

NextSeries ==
    \/ Upload(SeriesFiles)
    \/ \E pg \in SeriesPages : Navigate(pg)

SpecSeries == Init /\ [][NextSeries]_vars

(***************************************************************************)
(* Properties.                                                             *)
(***************************************************************************)
Cells(ser) == [i \in 1..Len(ser) |-> Num(ser[i])]
NoMissing(ser) == \A i \in 1..Len(ser) : ~isnull(ser[i])
\* every value is a small integer: h = 0, so that differences and their
\* sums are exact in float64
SmallValues(ser) == \A i \in 1..Len(ser) : ~isnull(ser[i]) => ser[i].h = 0
HasMissing(t) ==
    \E i \in 1..Len(t.index) : \E j \in 1..Len(t.columns) : isnull(t.data[i][j])
\* the positions in seq of the elements of sub, when sub lists elements of
\* seq in the order of seq without repeating one
IsSubsequence(sub, seq) ==
    /\ \A k \in 1..Len(sub) : \E i \in 1..Len(seq) : seq[i] = sub[k]
    /\ \A k, l \in 1..Len(sub) :
          k < l => \E i, j \in 1..Len(seq) : i < j /\ seq[i] = sub[k] /\ seq[j] = sub[l]

\* C1: outlier detection uses lower = Q1 - 1.5 * IQR and upper = Q3 + 1.5 *
\* IQR over the non-missing values; a row is in the outlier subset iff its
\* value is present and below lower or above upper; the subset keeps the
\* rows whole and in row order; the count is the number of such rows; and
\* x = [1, 2, 3, 4, 100] gives lower = -1, upper = 7, outliers = {100}.
C1_OutlierRule ==
    result.kind = "outliers" =>
        LET ser == Series(df, result.col)
            Q1 == quantile(ser, 1)
            Q3 == quantile(ser, 3)
            IQR == fsub(Q3, Q1)
            lower == fsub(Q1, fmul(IQR, 3, 2))
            upper == fadd(Q3, fmul(IQR, 3, 2))
            IsOutlier(i) ==
                ~isnull(ser[i]) /\ (lt(ser[i], lower) \/ lt(upper, ser[i]))
            out == result.outliers
        IN  /\ result.lower = lower /\ result.upper = upper
            /\ SmallValues(ser) /\ ~isnull(Q1) =>
                  /\ 2 * lower.l = 2 * Q1.l - 3 * (Q3.l - Q1.l)
                  /\ 2 * upper.l = 2 * Q3.l + 3 * (Q3.l - Q1.l)
            /\ \A i \in 1..Len(ser) :
                  (df.index[i] \in Range(out.index)) <=> IsOutlier(i)
            /\ \A k \in 1..Len(out.index) :
                  \E i \in 1..Len(ser) :
                      out.index[k] = df.index[i] /\ out.data[k] = df.data[i]
            /\ \A k, l \in 1..Len(out.index) : k < l => out.index[k] < out.index[l]
            /\ out.columns = df.columns
            /\ result.total = Cardinality({i \in 1..Len(ser) : IsOutlier(i)})
            /\ ser = Cells(<<1, 2, 3, 4, 100>>) =>
                  /\ result.lower = Num(-1) /\ result.upper = Num(7)
                  /\ out.data = << <<Num(100)>> >> /\ result.total = 1

\* the outlier report of x = [1, 2, 3, 4, 100]
C1_Witness ==
    /\ result.kind = "outliers"
    /\ Series(df, result.col) = Cells(<<1, 2, 3, 4, 100>>)
    /\ result.total = 1

\* C2: when the IQR of the column is 0, lower = upper = Q1 and the outliers
\* are exactly the rows whose present value differs from Q1; a constant
\* column has no outlier.
C2_ZeroIQR ==
    (result.kind = "outliers" /\ result.IQR = Num(0)) =>
        LET ser == Series(df, result.col)
        IN  /\ result.lower = result.Q1 /\ result.upper = result.Q1
            /\ result.Q1 = quantile(ser, 1)
            /\ \A i \in 1..Len(ser) :
                  (df.index[i] \in Range(result.outliers.index))
                      <=> (~isnull(ser[i]) /\ ser[i] # result.Q1)
            /\ (NoMissing(ser) /\ \A i \in 1..Len(ser) : ser[i] = ser[1]) =>
                  result.total = 0

\* the outlier report of y = [1, 1, 1, 1]
C2_Witness ==
    /\ result.kind = "outliers"
    /\ Series(df, result.col) = Cells(<<1, 1, 1, 1>>)
    /\ result.IQR = Num(0)
    /\ result.total = 0

\* the differences between rows i - 1 and i that have both values, in row
\* order
DefinedDifferences(ser) ==
    LET at == Where(Len(ser),
                  LAMBDA i : i > 1 /\ ~isnull(ser[i]) /\ ~isnull(ser[i - 1]))
    IN  [k \in 1..Len(at) |-> fsub(ser[at[k]], ser[at[k] - 1])]

RECURSIVE SumOf(_)
SumOf(seq) == IF Len(seq) = 0 THEN Num(0) ELSE fadd(SumOf(SubSeq(seq, 1, Len(seq) - 1)), seq[Len(seq)])

\* C3: the trend verdict is the sign of the mean of the consecutive
\* differences that have both values (a difference with a missing value is
\* left out, not counted as zero): increasing when it is above 0,
\* decreasing when below, no trend when it is 0 or no difference is defined.
C3_TrendRule ==
    result.kind = "trend" =>
        LET ser == Series(df, result.col)
            dd == DefinedDifferences(ser)
            total == SumOf(dd)
        IN  /\ result.diff = (IF Len(dd) = 0 THEN NaN ELSE fdiv(total, Len(dd)))
            /\ result.verdict \in {"increasing", "decreasing", "no clear trend"}
            /\ result.verdict = "increasing" <=> (Len(dd) > 0 /\ lt(Num(0), total))
            /\ result.verdict = "decreasing" <=> (Len(dd) > 0 /\ lt(total, Num(0)))
            /\ result.verdict = "no clear trend" <=> (Len(dd) = 0 \/ total = Num(0))

\* a falling column with a missing value in the middle: one of its three
\* differences is defined
C3_Witness ==
    /\ result.kind = "trend"
    /\ Series(df, result.col) = <<Num(4), NaN, Num(3), Num(1)>>
    /\ result.diff = Num(-2)
    /\ result.verdict = "decreasing"

C4_InputUntouched ==
    (page = "Clean & Export" /\ result.kind \in {"cleaned", "exception"}) =>
        /\ df = uploaded.table
        /\ result.kind = "cleaned" => result.start = uploaded.table

\* a cleaning that filled cells, with df as loaded
C4_Witness ==
    /\ result.kind = "cleaned"
    /\ result.method = "Fill nulls with 0"
    /\ HasMissing(df)
    /\ ~HasMissing(result.df_clean)

\* C5: "Drop rows with nulls" removes exactly the rows with a missing value
\* and "Drop columns with nulls" exactly the columns with one; the result
\* has no missing value and applying the method to it again changes
\* nothing.
C5_DropIdempotent ==
    (result.kind = "cleaned"
        /\ result.method \in {"Drop rows with nulls", "Drop columns with nulls"}) =>
        LET T == result.start
            C == result.df_clean
            RowFull(i) == \A j \in 1..Len(T.columns) : ~isnull(T.data[i][j])
            ColFull(j) == \A i \in 1..Len(T.index) : ~isnull(T.data[i][j])
        IN  /\ ~HasMissing(C)
            /\ ApplyMethod(C, result.method) = C
            /\ result.method = "Drop rows with nulls" =>
                  /\ C.columns = T.columns
                  /\ \A i \in 1..Len(T.index) :
                        RowFull(i) <=> \E k \in 1..Len(C.index) :
                            C.index[k] = T.index[i] /\ C.data[k] = T.data[i]
                  /\ Len(C.index) = Cardinality({i \in 1..Len(T.index) : RowFull(i)})
            /\ result.method = "Drop columns with nulls" =>
                  /\ C.index = T.index
                  /\ \A j \in 1..Len(T.columns) :
                        ColFull(j) <=> \E k \in 1..Len(C.columns) :
                            /\ C.columns[k] = T.columns[j]
                            /\ \A i \in 1..Len(T.index) : C.data[i][k] = T.data[i][j]
                  /\ Len(C.columns) = Cardinality({j \in 1..Len(T.columns) : ColFull(j)})

\* rows dropped from a table in which a row has a present and a missing
\* value, some rows staying
C5_Witness ==
    /\ result.kind = "cleaned"
    /\ result.method = "Drop rows with nulls"
    /\ Len(result.df_clean.index) > 0
    /\ \E i \in 1..Len(df.index) :
          /\ \E j \in 1..Len(df.columns) : isnull(df.data[i][j])
          /\ \E j \in 1..Len(df.columns) : ~isnull(df.data[i][j])

\* C6: "Fill nulls with mean" / "Fill nulls with median" succeeds on every
\* table, also with text columns: each missing value of a numeric column
\* becomes the mean / median of the column's present values, present values
\* and text columns stay as they are.
C6_FillSucceeds ==
    (page = "Clean & Export" /\ result.kind # "clean"
        /\ method \in {"Fill nulls with mean", "Fill nulls with median"}) =>
        /\ result.kind = "cleaned"
        /\ LET T == uploaded.table
               C == result.df_clean
               Stat(ser) == IF method = "Fill nulls with mean" THEN mean(ser)
                            ELSE median(ser)
           IN  /\ C.columns = T.columns /\ C.index = T.index
               /\ \A i \in 1..Len(T.index) : \A j \in 1..Len(T.columns) :
                     C.data[i][j] =
                        IF isnull(T.data[i][j]) /\ T.columns[j].dtype = "number"
                        THEN Stat(Series(T, T.columns[j].name))
                        ELSE T.data[i][j]

\* C7: every method keeps the surviving columns in their order; the three
\* fills keep the rows and the columns; "Fill nulls with 0" puts 0 in every
\* missing cell of every column, text columns too, and changes no other.
C7_ShapeAndZeroFill ==
    result.kind = "cleaned" =>
        LET T == result.start
            C == result.df_clean
        IN  /\ IsSubsequence(C.columns, T.columns)
            /\ result.method \in {"Fill nulls with mean", "Fill nulls with median",
                                  "Fill nulls with 0"} =>
                  /\ C.index = T.index /\ C.columns = T.columns
                  /\ \A i \in 1..Len(T.index) : \A j \in 1..Len(T.columns) :
                        ~isnull(T.data[i][j]) => C.data[i][j] = T.data[i][j]
            /\ result.method = "Fill nulls with 0" =>
                  /\ ~HasMissing(C)
                  /\ \A i \in 1..Len(T.index) : \A j \in 1..Len(T.columns) :
                        isnull(T.data[i][j]) => C.data[i][j] = Num(0)

\* zeros filled into a text column
C7_Witness ==
    /\ result.kind = "cleaned"
    /\ result.method = "Fill nulls with 0"
    /\ \E i \in 1..Len(df.index) : \E j \in 1..Len(df.columns) :
          /\ df.columns[j].dtype = "object"
          /\ isnull(df.data[i][j])
          /\ result.df_clean.data[i][j] = Num(0)

\* C8: outlier detection, trend analysis and correlation on a table
\* without a numeric column (a table without rows has none) end in an
\* error and render no result, leave the table as loaded, and the user can
\* go on to another page.
C8_NothingToAnalyse ==
    (page \in {"Outlier Detection", "Correlation Explorer", "Trend Detection"}
        /\ Len(select_dtypes(uploaded.table, "number")) = 0) =>
        /\ result.kind = "exception"
        /\ df = uploaded.table
        /\ \A pg \in Pages \ {page} : ENABLED Navigate(pg)

\* outlier detection asked of a table without rows
C8_Witness ==
    /\ page = "Outlier Detection"
    /\ Len(df.columns) > 0 /\ Len(df.index) = 0
    /\ result = Raised("KeyError")

====
